---- MODULE Spec2Model ----
(***************************************************************************)
(* enginz: the request-telemetry and logging pipeline of the web server.   *)
(*                                                                         *)
(* Tasks: the Serve caller, one listener per Service, the access-log       *)
(* consumer (Server.logger), the error-log consumer (Server.errlogger),    *)
(* the Shutdown caller and its per-service goroutines, a RotateLog caller, *)
(* a Server.Error caller and one task per request (Server.ServeHTTP).      *)
(* Channels are Go buffered channels: a state (nil, open, closed) and a    *)
(* FIFO buffer.  A panic that nothing recovers ends the whole process.     *)
(***************************************************************************)
EXTENDS Integers, Sequences, FiniteSets, TLC

\* ------------------------------------------------------------- bounds
\* capacity of both channels (const logQueueSize, 1000 in the source,
\* scaled down so that a full queue is reached)
logQueueSize == 2
\* requests served concurrently on the access-log pipeline
MaxReq == 2
\* RotateLog calls while MaxReq requests are served
MaxRot == 1
\* RotateLog calls while one request is served
MaxRotations == 2
\* Server.Error calls
MaxErr == 2
\* configured Service endpoints
NServices == 2
\* Write/WriteHeader calls one handler makes
MaxCalls == 3
\* longest chunk passed to Write
MaxChunk == 2
\* longest header value passed to logEscape
MaxLen == 3

\* status codes a handler passes to WriteHeader (0 is no HTTP status; the
\* wrapper keeps it for "not set")
StatusCodes == {200, 404}

VARIABLES
    cfg,        \* Server fields set by the caller: AccessLog, ErrorLog (path
                \* non-empty), Log, Collect, Error500 (non-nil)
    servePc,    \* Serve: "idle", "spawn", "wait", "returned"
    done,       \* s.done, the WaitGroup counter
    logch,      \* s.logch: [st: "nil" | "open" | "closed", q: buffer]
    errch,      \* s.errch
    loggerPc,   \* Server.logger: "none", "open", "loop", "exit"
    w,          \* logger's current file handle (index into handles), 0: none
    handles,    \* every handle logger opened: "open" | "closed" |
                \* "closed twice"
    lines,      \* lines written by writeLog: [rec, h] in write order
    rotations,  \* history: per signal received, [ok, old, wx]: whether the
                \* reopen succeeded, the handle held before, the one opened
    reports,    \* Report.Problem / Report.Fatal calls of the two consumers
    errloggerPc, \* Server.errlogger: "none", "loop", "exit"
    errlines,   \* messages errlogger wrote, in order
    errops,     \* history: errlogger's file operations, [op, msg] in order
    erracc,     \* history: messages the error queue accepted, in order
    listener,   \* per Service: "off", "running", "stopped"
    inShutdown, \* http.Server instances on which Shutdown was called
    shutdownPc, \* Shutdown: "idle", "closeErr", "spawn", "wait", "returned",
                \* "panicked"
    wg,         \* Shutdown's local WaitGroup
    shutTask,   \* Shutdown's goroutines: "none", "running", "done"
    crashed,    \* the process ended (unrecovered panic, or os.Exit)
    rot,        \* RotateLog caller: [pc: "idle" | "send" | "panicked", n]
    err,        \* Error caller: [pc: "idle" | "send" | "panicked", n]
    rq,         \* per request: ServeHTTP's locals, the calls it made (ev)
                \* and the panics raised under it (npanic)
    accepted,   \* history: items the access queue accepted, in order
    submitted,  \* history: [c, qlen]: the records passed to the select of
                \* Server.log and the buffer's length at that moment
    esc         \* a header value on its way through logEscape: [s, t, pc]:
                \* the bytes passed in, the bytes returned, "in" | "out"

vars == <<cfg, servePc, done, logch, errch, loggerPc, w, handles, lines,
          rotations, reports, errloggerPc, errlines, errops, erracc, listener,
          inShutdown, shutdownPc, wg, shutTask, crashed, rot, err, rq, accepted, submitted, esc>>

Reqs == DOMAIN rq
Services == 1..NServices

\* ---------------------------------------------------------- data
\* &Collect{Req, Size, Status}; Usec is a clock reading and is left out
Collect(r, size, status) == [Req |-> r, Size |-> size, Status |-> status]
\* &Collect{}: Req == nil is the rotation signal
RotateSignal == Collect(0, 0, 0)

NilChan == [st |-> "nil", q |-> <<>>]
MakeChan == [st |-> "open", q |-> <<>>]

\* responseWriter{w: w} and the rest of a request's locals
NewRequest ==
    [pc |-> "idle", size |-> 0, status |-> 0, calls |-> 0,
     sum |-> 0, last |-> 0, ret |-> "", c |-> RotateSignal, ev |-> <<>>,
     npanic |-> 0]

Records(s) == SelectSeq(s, LAMBDA m : m.Req # 0)

\* ---------------------------------------------------------- Init
\* the state before Serve is called, for a Server configured as one of
\* configs, serving at most n requests
InitWith(configs, n) ==
    /\ cfg \in configs
    /\ servePc = "idle"
    /\ done = 0
    /\ logch = NilChan
    /\ errch = NilChan
    /\ loggerPc = "none"
    /\ w = 0
    /\ handles = <<>>
    /\ lines = <<>>
    /\ rotations = <<>>
    /\ reports = <<>>
    /\ errloggerPc = "none"
    /\ errlines = <<>>
    /\ errops = <<>>
    /\ erracc = <<>>
    /\ listener = [i \in Services |-> "off"]
    /\ inShutdown = {}
    /\ shutdownPc = "idle"
    /\ wg = 0
    /\ shutTask = [i \in Services |-> "none"]
    /\ crashed = FALSE
    /\ rot = [pc |-> "idle", n |-> 0]
    /\ err = [pc |-> "idle", n |-> 0]
    /\ rq = [r \in 1..n |-> NewRequest]
    /\ accepted = <<>>
    /\ submitted = <<>>

Configs ==
    [AccessLog : BOOLEAN, ErrorLog : BOOLEAN, Log : BOOLEAN,
     Collect : BOOLEAN, Error500 : BOOLEAN]

\* no header value under way
NoField == [s |-> <<>>, t |-> <<>>, pc |-> "in"]

\* ---------------------------------------------------------- channels
\* a faulty TrySend: a full queue gives up its oldest item for the new one
TrySendDropOldest(q, c) ==
    IF Len(q) < logQueueSize THEN Append(q, c) ELSE Append(Tail(q), c)

\* a faulty TrySend: the new item goes to the head of the buffer
TrySendFront(q, c) == IF Len(q) < logQueueSize THEN <<c>> \o q ELSE q

\* select { case s.logch <- c: default: } on an open channel
TrySend(q, c) == IF Len(q) < logQueueSize THEN Append(q, c) ELSE q

\* an unrecovered panic in a caller's goroutine ends the process unless the
\* caller itself recovers
PanicOutcomes == BOOLEAN

\* ---------------------------------------------------------- Serve
\* Serve up to the listener loop, with newAccessLogger and newErrorLogger
ServeInit ==
    /\ ~crashed
    /\ servePc = "idle"
    /\ logch' = IF cfg.AccessLog THEN MakeChan ELSE logch
    /\ loggerPc' = IF cfg.AccessLog THEN "open" ELSE loggerPc
    /\ errch' = IF cfg.ErrorLog THEN MakeChan ELSE errch
    /\ errloggerPc' = IF cfg.ErrorLog THEN "loop" ELSE errloggerPc
    /\ done' = done + (IF cfg.AccessLog THEN 1 ELSE 0)
                    + (IF cfg.ErrorLog THEN 1 ELSE 0)
    /\ servePc' = "spawn"
    /\ UNCHANGED <<cfg, esc, errops, erracc, w, handles, lines, rotations, reports, errlines, listener,
                   inShutdown, shutdownPc, wg, shutTask, crashed, rot, err,
                   rq, accepted, submitted>>

\* one iteration of Serve's loop: ss.www = www; s.done.Add(1); go func
ServeSpawn(i) ==
    /\ ~crashed
    /\ servePc = "spawn"
    /\ listener[i] = "off"
    /\ \A j \in Services : j < i => listener[j] # "off"
    /\ done' = done + 1
    /\ listener' = [listener EXCEPT ![i] = "running"]
    /\ servePc' = IF i = NServices THEN "wait" ELSE "spawn"
    /\ UNCHANGED <<cfg, esc, errops, erracc, logch, errch, loggerPc, w, handles, lines, rotations,
                   reports, errloggerPc, errlines, inShutdown, shutdownPc,
                   wg, shutTask, crashed, rot, err, rq, accepted, submitted>>

\* s.done.Wait()
ServeWait ==
    /\ ~crashed
    /\ servePc = "wait"
    /\ done = 0
    /\ servePc' = "returned"
    /\ UNCHANGED <<cfg, esc, errops, erracc, done, logch, errch, loggerPc, w, handles, lines, rotations,
                   reports, errloggerPc, errlines, listener, inShutdown,
                   shutdownPc, wg, shutTask, crashed, rot, err, rq, accepted,
                   submitted>>

\* the http.Server a listener goroutine serves on: the loop's local www
ServingInstance(i) == <<i, "www">>

\* the listener goroutine: www.ListenAndServe[TLS] returns (a listen error,
\* or Shutdown of the instance it serves on), then the deferred s.done.Done()
ListenerReturn(i) ==
    /\ ~crashed
    /\ listener[i] = "running"
    /\ \E why \in {"error", "closed"} :
           why = "closed" => ServingInstance(i) \in inShutdown
    /\ listener' = [listener EXCEPT ![i] = "stopped"]
    /\ done' = done - 1
    /\ UNCHANGED <<cfg, esc, errops, erracc, servePc, logch, errch, loggerPc, w, handles, lines,
                   rotations, reports, errloggerPc, errlines, inShutdown,
                   shutdownPc, wg, shutTask, crashed, rot, err, rq, accepted,
                   submitted>>

\* ---------------------------------------------------------- Shutdown
\* close(s.logch); closing a nil or closed channel panics
ShutdownCloseLog ==
    /\ ~crashed
    /\ shutdownPc = "idle"
    /\ servePc \in {"wait", "returned"}
    /\ IF logch.st = "open"
       THEN /\ logch' = [logch EXCEPT !.st = "closed"]
            /\ shutdownPc' = "closeErr"
            /\ crashed' = crashed
       ELSE /\ logch' = logch
            /\ shutdownPc' = "panicked"
            /\ crashed' \in PanicOutcomes
    /\ UNCHANGED <<cfg, esc, errops, erracc, servePc, done, errch, loggerPc, w, handles, lines,
                   rotations, reports, errloggerPc, errlines, listener, inShutdown,
                   wg, shutTask, rot, err, rq, accepted, submitted>>

\* close(s.errch)
ShutdownCloseErr ==
    /\ ~crashed
    /\ shutdownPc = "closeErr"
    /\ IF errch.st = "open"
       THEN /\ errch' = [errch EXCEPT !.st = "closed"]
            /\ shutdownPc' = "spawn"
            /\ crashed' = crashed
       ELSE /\ errch' = errch
            /\ shutdownPc' = "panicked"
            /\ crashed' \in PanicOutcomes
    /\ UNCHANGED <<cfg, esc, errops, erracc, servePc, done, logch, loggerPc, w, handles, lines,
                   rotations, reports, errloggerPc, errlines, listener, inShutdown,
                   wg, shutTask, rot, err, rq, accepted, submitted>>

\* for _, ss := range s.Service { wg.Add(1); go func ... }
ShutdownSpawn ==
    /\ ~crashed
    /\ shutdownPc = "spawn"
    /\ wg' = wg + NServices
    /\ shutTask' = [i \in Services |-> "running"]
    /\ shutdownPc' = "wait"
    /\ UNCHANGED <<cfg, esc, errops, erracc, servePc, done, logch, errch, loggerPc, w, handles,
                   lines, rotations, reports, errloggerPc, errlines, listener,
                   inShutdown, crashed, rot, err, rq, accepted, submitted>>

\* the http.Server that ss.www.Shutdown(ctx) acts on: the www field of the
\* range variable ss, a copy of s.Service[j], itself a copy of Serve's www
ShutdownInstance(j) == <<j, "ss">>

\* a Shutdown goroutine: ss.www.Shutdown(ctx), then the deferred wg.Done().
\* The closure reads the loop variable ss when it runs: with one variable
\* per loop it holds the element of any iteration from its own on.
ShutdownTask(i) ==
    /\ ~crashed
    /\ shutTask[i] = "running"
    /\ \E j \in i..NServices :
           inShutdown' = inShutdown \cup {ShutdownInstance(j)}
    /\ shutTask' = [shutTask EXCEPT ![i] = "done"]
    /\ wg' = wg - 1
    /\ UNCHANGED <<cfg, esc, errops, erracc, servePc, done, logch, errch, loggerPc, w, handles,
                   lines, rotations, reports, errloggerPc, errlines, listener,
                   shutdownPc, crashed, rot, err, rq, accepted, submitted>>

\* wg.Wait()
ShutdownWait ==
    /\ ~crashed
    /\ shutdownPc = "wait"
    /\ wg = 0
    /\ shutdownPc' = "returned"
    /\ UNCHANGED <<cfg, esc, errops, erracc, servePc, done, logch, errch, loggerPc, w, handles,
                   lines, rotations, reports, errloggerPc, errlines, listener,
                   inShutdown, wg, shutTask, crashed, rot, err, rq, accepted,
                   submitted>>

\* ---------------------------------------------------------- access log
\* a faulty RotateHandle: the old handle is closed but w is never replaced
RotateHandleKeepOld(old, wx, ok) == old

\* the handle logger writes through after a rotation signal: wx when the
\* reopen succeeded (w.Close(); w = wx), the old w when it failed
RotateHandle(old, wx, ok) == IF ok THEN wx ELSE old

\* Close on handle h: "closed", and "closed twice" when it was closed
CloseFile(hs, h) ==
    [hs EXCEPT ![h] = IF @ = "open" THEN "closed" ELSE "closed twice"]

\* a faulty RotateFiles: the old file is closed before the result of the
\* reopen is looked at
RotateFilesCloseFirst(hs, old, ok) ==
    IF ok THEN CloseFile(Append(hs, "open"), old) ELSE CloseFile(hs, old)

\* the files after a rotation signal: os.OpenFile brings a new handle when
\* it succeeds, and then w.Close() closes the old one
RotateFiles(hs, old, ok) ==
    IF ok THEN CloseFile(Append(hs, "open"), old) ELSE hs

\* a faulty DeferredClose: defer w.Close(), bound to the handle of the
\* moment the defer statement ran
DeferredCloseFirst(first, cur) == first

\* the handle closed by defer func() { w.Close() }(): the closure reads w
\* when logger returns; first is the handle opened at startup
DeferredClose(first, cur) == cur

\* a faulty LoggerReturn: the deferred call is missing
LoggerReturnNoDone(d) == d

\* logger returning: the deferred s.done.Done()
LoggerReturn(d) == d - 1

\* logger: os.OpenFile at startup.  On failure Report.Fatal, which either
\* ends the process (the default reporter's os.Exit) or returns, and then
\* logger returns through its deferred s.done.Done()
LoggerOpen ==
    /\ ~crashed
    /\ loggerPc = "open"
    /\ \E ok \in BOOLEAN :
        IF ok
        THEN /\ handles' = Append(handles, "open")
             /\ w' = Len(handles) + 1
             /\ loggerPc' = "loop"
             /\ UNCHANGED <<reports, done, crashed>>
        ELSE /\ reports' = Append(reports, "Fatal:open")
             /\ \E exits \in BOOLEAN :
                    IF exits
                    THEN crashed' = TRUE /\ UNCHANGED <<done, loggerPc>>
                    ELSE /\ crashed' = crashed
                         /\ done' = LoggerReturn(done)
                         /\ loggerPc' = "exit"
             /\ UNCHANGED <<handles, w>>
    /\ UNCHANGED <<cfg, esc, errops, erracc, servePc, logch, errch, lines, rotations, errloggerPc,
                   errlines, listener, inShutdown, shutdownPc, wg, shutTask,
                   rot, err, rq, accepted, submitted>>

\* logger: one iteration of the loop on a received message: a rotation
\* signal reopens the file, a record is written by writeLog
LoggerRecv ==
    /\ ~crashed
    /\ loggerPc = "loop"
    /\ logch.q # <<>>
    /\ LET msg == Head(logch.q)
       IN /\ logch' = [logch EXCEPT !.q = Tail(@)]
          /\ IF msg.Req = 0
             THEN \E ok \in BOOLEAN :
                  LET wx == Len(handles) + 1
                      nw == RotateHandle(w, wx, ok)
                  IN /\ handles' = RotateFiles(handles, w, ok)
                     /\ w' = nw
                     /\ rotations' = Append(rotations,
                            [ok |-> ok, old |-> w, wx |-> IF ok THEN wx ELSE 0])
                     /\ reports' = IF ok THEN reports
                                   ELSE Append(reports, "Problem:rotate")
                     /\ lines' = lines
             ELSE /\ lines' = Append(lines, [rec |-> msg, h |-> w])
                  /\ UNCHANGED <<handles, w, rotations, reports>>
    /\ UNCHANGED <<cfg, esc, errops, erracc, servePc, done, errch, loggerPc, errloggerPc, errlines,
                   listener, inShutdown, shutdownPc, wg, shutTask, crashed,
                   rot, err, rq, accepted, submitted>>

\* logger: the channel is closed and drained: return, then the deferred
\* w.Close() and s.done.Done()
LoggerExit ==
    /\ ~crashed
    /\ loggerPc = "loop"
    /\ logch.st = "closed"
    /\ logch.q = <<>>
    /\ handles' = CloseFile(handles, DeferredClose(1, w))
    /\ done' = LoggerReturn(done)
    /\ loggerPc' = "exit"
    /\ UNCHANGED <<cfg, esc, errops, erracc, servePc, logch, errch, w, lines, rotations, reports,
                   errloggerPc, errlines, listener, inShutdown, shutdownPc,
                   wg, shutTask, crashed, rot, err, rq, accepted, submitted>>

\* RotateLog, called at most max times: return when no access log is
\* configured, else go on to the send
RotateLogCall(max) ==
    /\ ~crashed
    /\ rot.pc = "idle"
    /\ rot.n < max
    /\ rot' = [pc |-> IF logch.st = "nil" THEN "idle" ELSE "send",
               n |-> rot.n + 1]
    /\ UNCHANGED <<cfg, esc, errops, erracc, servePc, done, logch, errch, loggerPc, w, handles,
                   lines, rotations, reports, errloggerPc, errlines, listener,
                   inShutdown, shutdownPc, wg, shutTask, crashed, err, rq,
                   accepted, submitted>>

\* RotateLog: s.logch <- &Collect{}, a blocking send: it waits while the
\* buffer is full and panics on a closed channel
RotateLogSend ==
    /\ ~crashed
    /\ rot.pc = "send"
    /\ IF logch.st = "closed"
       THEN /\ rot' = [rot EXCEPT !.pc = "panicked"]
            /\ crashed' \in PanicOutcomes
            /\ UNCHANGED <<logch, accepted>>
       ELSE /\ Len(logch.q) < logQueueSize
            /\ logch' = [logch EXCEPT !.q = Append(@, RotateSignal)]
            /\ accepted' = Append(accepted, RotateSignal)
            /\ rot' = [rot EXCEPT !.pc = "idle"]
            /\ crashed' = crashed
    /\ UNCHANGED <<cfg, esc, errops, erracc, servePc, done, errch, loggerPc, w, handles, lines,
                   rotations, reports, errloggerPc, errlines, listener, inShutdown,
                   shutdownPc, wg, shutTask, err, rq, submitted>>

\* ---------------------------------------------------------- error log
\* Server.Error: return when no error log is configured, else go on to the
\* send (the message is the call's number)
ErrorCall ==
    /\ ~crashed
    /\ err.pc = "idle"
    /\ err.n < MaxErr
    /\ err' = [pc |-> IF errch.st = "nil" THEN "idle" ELSE "send",
               n |-> err.n + 1]
    /\ UNCHANGED <<cfg, esc, errops, erracc, servePc, done, logch, errch, loggerPc, w, handles,
                   lines, rotations, reports, errloggerPc, errlines, listener,
                   inShutdown, shutdownPc, wg, shutTask, crashed, rot, rq,
                   accepted, submitted>>

\* Server.Error: s.errch <- string(b), a blocking send
ErrorSend ==
    /\ ~crashed
    /\ err.pc = "send"
    /\ IF errch.st = "closed"
       THEN /\ err' = [err EXCEPT !.pc = "panicked"]
            /\ crashed' \in PanicOutcomes
            /\ UNCHANGED <<errch, erracc>>
       ELSE /\ Len(errch.q) < logQueueSize
            /\ errch' = [errch EXCEPT !.q = Append(@, err.n)]
            /\ erracc' = Append(erracc, err.n)
            /\ err' = [err EXCEPT !.pc = "idle"]
            /\ crashed' = crashed
    /\ UNCHANGED <<cfg, esc, errops, servePc, done, logch, loggerPc, w,
                   handles, lines, rotations, reports, errloggerPc, errlines,
                   listener, inShutdown, shutdownPc, wg, shutTask, rot, rq,
                   accepted, submitted>>

\* a faulty Flush: the file is left open
FlushLeaveOpen(msg, ok) ==
    IF ok
    THEN <<[op |-> "open", msg |-> msg], [op |-> "write", msg |-> msg]>>
    ELSE <<[op |-> "openfail", msg |-> msg]>>

\* errlogger's file operations for one message: os.OpenFile, and when it
\* succeeded fmt.Fprintf of the time and the message, then w.Close()
Flush(msg, ok) ==
    IF ok
    THEN <<[op |-> "open", msg |-> msg], [op |-> "write", msg |-> msg],
           [op |-> "close", msg |-> msg]>>
    ELSE <<[op |-> "openfail", msg |-> msg]>>

\* errlogger: one message: open the file, write the line, close; on a failed
\* open Report.Problem and the message is dropped
ErrLoggerRecv ==
    /\ ~crashed
    /\ errloggerPc = "loop"
    /\ errch.q # <<>>
    /\ errch' = [errch EXCEPT !.q = Tail(@)]
    /\ \E ok \in BOOLEAN :
        /\ errops' = errops \o Flush(Head(errch.q), ok)
        /\ IF ok
           THEN errlines' = Append(errlines, Head(errch.q))
                /\ reports' = reports
           ELSE errlines' = errlines
                /\ reports' = Append(reports, "Problem:erropen")
    /\ UNCHANGED <<cfg, esc, erracc, servePc, done, logch, loggerPc, w,
                   handles, lines, rotations, errloggerPc, listener,
                   inShutdown, shutdownPc, wg, shutTask, crashed, rot, err,
                   rq, accepted, submitted>>

\* errlogger: the channel is closed and drained: return.  The function has
\* no s.done.Done(): the counter newErrorLogger raised stays
ErrLoggerExit ==
    /\ ~crashed
    /\ errloggerPc = "loop"
    /\ errch.st = "closed"
    /\ errch.q = <<>>
    /\ errloggerPc' = "exit"
    /\ UNCHANGED <<cfg, esc, errops, erracc, servePc, done, logch, errch, loggerPc, w, handles,
                   lines, rotations, reports, errlines, listener, inShutdown,
                   shutdownPc, wg, shutTask, crashed, rot, err, rq, accepted,
                   submitted>>

\* ---------------------------------------------------------- logEscape
\* header values are byte strings; the bytes tried: every class boundary of
\* shouldEscape and both kinds of hex digit
SampleBytes == {0, 31, 32, 33, 34, 37, 65, 126, 127, 128, 171, 255}

Strings(n) == UNION {[1..k -> SampleBytes] : k \in 0..n}

\* the values passed to logEscape: the sample strings and every single byte
Fields == Strings(MaxLen) \cup {<<c>> : c \in 0..255}

\* "0123456789ABCDEF"
HexDigits == <<48, 49, 50, 51, 52, 53, 54, 55, 56, 57, 65, 66, 67, 68, 69, 70>>

\* a faulty shouldEscape: DEL falls outside the range test
shouldEscapeAbove127(c) == c \in {32, 34, 37} \/ c <= 32 \/ c > 127

\* shouldEscape: the switch on ' ', '"', '%', then c <= ' ' || c >= 127
shouldEscape(c) == c \in {32, 34, 37} \/ c <= 32 \/ c >= 127

\* logEscape's first loop
hexCount(s) == Cardinality({i \in 1..Len(s) : shouldEscape(s[i])})

RECURSIVE Fill(_, _, _, _)
\* logEscape's second loop from index i of s, writing t from index j
Fill(s, i, t, j) ==
    IF i > Len(s) THEN t
    ELSE LET c == s[i]
         IN IF shouldEscape(c)
            THEN Fill(s, i + 1,
                      [t EXCEPT ![j] = 37,
                                ![j + 1] = HexDigits[(c \div 16) + 1],
                                ![j + 2] = HexDigits[(c % 16) + 1]],
                      j + 3)
            ELSE Fill(s, i + 1, [t EXCEPT ![j] = c], j + 1)

\* logEscape: s itself when nothing is to escape, else a buffer of
\* len(s)+2*hexCount bytes filled by the second loop
logEscape(s) ==
    IF hexCount(s) = 0 THEN s
    ELSE Fill(s, 1, [k \in 1..(Len(s) + 2 * hexCount(s)) |-> 0], 1)

\* writeLog / verboseLog: logEscape(rfr), logEscape(ua)
EscapeField ==
    /\ ~crashed
    /\ esc.pc = "in"
    /\ esc' = [esc EXCEPT !.t = logEscape(esc.s), !.pc = "out"]
    /\ UNCHANGED <<cfg, errops, erracc, servePc, done, logch, errch, loggerPc, w, handles,
                   lines, rotations, reports, errloggerPc, errlines, listener,
                   inShutdown, shutdownPc, wg, shutTask, crashed, rot, err,
                   rq, accepted, submitted>>

\* ---------------------------------------------------------- ServeHTTP
\* a faulty WriteSize: the count the underlying writer returned is added
WriteSizeUnderlying(size, n, res) == size + res

\* responseWriter.Write: w.size += int64(len(b)) with chunk length n; res is
\* what the underlying writer returns
WriteSize(size, n, res) == size + n

\* responseWriter.WriteHeader: w.status = s
WriteStatus(status, s) == s

\* a faulty FinalStatus: the default is forgotten
FinalStatusNoDefault(status) == status

\* if lw.status == 0 { lw.status = 200 }
FinalStatus(status) == IF status = 0 THEN 200 ELSE status

\* where a panic under ServeHTTP goes: the deferred function recovers it
PanicTarget == "recover"

\* a faulty serverError: no deferred recover
serverErrorNoRecover(e500, panics) ==
    IF e500 THEN <<"Error500">> ELSE <<"WriteHeader:500", "Body">>

\* serverError's calls: Error500 when configured, else the default 500
\* (WriteHeader(500) and the body); when Error500 or the write of the body
\* panics, the deferred function's report and its WriteHeader(500)
serverError(e500, panics) ==
    (IF e500 THEN <<"Error500">> ELSE <<"WriteHeader:500", "Body">>)
        \o (IF panics
            THEN <<"Problem:PANIC in PANIC handler", "WriteHeader:500">>
            ELSE <<>>)

\* a faulty Recovered: the panic is reported and no 500 is sent
RecoveredNoSubstitute(sub) == <<"Problem:PANIC!">>

\* the deferred function of ServeHTTP on a recovered panic
Recovered(sub) == <<"Problem:PANIC!">> \o sub

\* a listener accepts a request and ServeHTTP starts: headers set,
\* lw := &responseWriter{w: w}, the handler is entered
ReqArrive(r) ==
    /\ ~crashed
    /\ rq[r].pc = "idle"
    /\ \A p \in Reqs : p < r => rq[p].pc # "idle"
    /\ \E i \in Services : listener[i] = "running"
    /\ rq' = [rq EXCEPT ![r].pc = "handler"]
    /\ UNCHANGED <<cfg, esc, errops, erracc, servePc, done, logch, errch, loggerPc, w, handles,
                   lines, rotations, reports, errloggerPc, errlines, listener,
                   inShutdown, shutdownPc, wg, shutTask, crashed, rot, err,
                   accepted, submitted>>

\* the handler calls lw.Write(b), len(b) = n; the underlying writer takes res
HandlerWrite(r) ==
    /\ ~crashed
    /\ rq[r].pc = "handler"
    /\ rq[r].calls < MaxCalls
    /\ \E n \in 0..MaxChunk : \E res \in 0..n :
           rq' = [rq EXCEPT ![r].size = WriteSize(@, n, res),
                            ![r].sum = @ + n,
                            ![r].calls = @ + 1]
    /\ UNCHANGED <<cfg, esc, errops, erracc, servePc, done, logch, errch, loggerPc, w, handles,
                   lines, rotations, reports, errloggerPc, errlines, listener,
                   inShutdown, shutdownPc, wg, shutTask, crashed, rot, err,
                   accepted, submitted>>

\* the handler calls lw.WriteHeader(s)
HandlerWriteHeader(r) ==
    /\ ~crashed
    /\ rq[r].pc = "handler"
    /\ rq[r].calls < MaxCalls
    /\ \E s \in StatusCodes :
           rq' = [rq EXCEPT ![r].status = WriteStatus(@, s),
                            ![r].last = s,
                            ![r].calls = @ + 1]
    /\ UNCHANGED <<cfg, esc, errops, erracc, servePc, done, logch, errch, loggerPc, w, handles,
                   lines, rotations, reports, errloggerPc, errlines, listener,
                   inShutdown, shutdownPc, wg, shutTask, crashed, rot, err,
                   accepted, submitted>>

\* the handler returns: the status default, then c := &Collect{...}
HandlerReturn(r) ==
    /\ ~crashed
    /\ rq[r].pc = "handler"
    /\ rq' = [rq EXCEPT ![r].pc = "log",
                        ![r].ret = "normal",
                        ![r].c = Collect(r, rq[r].size,
                                         FinalStatus(rq[r].status))]
    /\ UNCHANGED <<cfg, esc, errops, erracc, servePc, done, logch, errch, loggerPc, w, handles,
                   lines, rotations, reports, errloggerPc, errlines, listener,
                   inShutdown, shutdownPc, wg, shutTask, crashed, rot, err,
                   accepted, submitted>>

\* the handler panics: control passes to ServeHTTP's deferred function
HandlerPanic(r) ==
    /\ ~crashed
    /\ rq[r].pc = "handler"
    /\ rq' = [rq EXCEPT ![r].pc = PanicTarget, ![r].ret = "panic",
                        ![r].npanic = @ + 1]
    /\ UNCHANGED <<cfg, esc, errops, erracc, servePc, done, logch, errch, loggerPc, w, handles,
                   lines, rotations, reports, errloggerPc, errlines, listener,
                   inShutdown, shutdownPc, wg, shutTask, crashed, rot, err,
                   accepted, submitted>>

\* s.log(c) and the collector ("log" marks the call): verboseLog when Log
\* is set; nothing more without an access log; else the select (send, or
\* drop when full; a send on a closed channel panics, which ServeHTTP's
\* deferred function recovers); then s.Collect(c) when set
Log(r) ==
    /\ ~crashed
    /\ rq[r].pc = "log"
    /\ LET c == rq[r].c
           ev0 == Append(rq[r].ev, "log")
           ev1 == IF cfg.Log THEN Append(ev0, "Verbose") ELSE ev0
           ev2(e) == IF cfg.Collect THEN Append(e, "Collect") ELSE e
       IN CASE logch.st = "nil" ->
                 /\ rq' = [rq EXCEPT ![r].pc = "done", ![r].ev = ev2(ev1)]
                 /\ UNCHANGED <<logch, accepted, submitted>>
            [] logch.st = "open" ->
                 /\ logch' = [logch EXCEPT !.q = TrySend(@, c)]
                 /\ submitted' = Append(submitted,
                                       [c |-> c, qlen |-> Len(logch.q)])
                 /\ accepted' = IF Len(logch.q) < logQueueSize
                                THEN Append(accepted, c) ELSE accepted
                 /\ rq' = [rq EXCEPT
                             ![r].pc = "done",
                             ![r].ev = ev2(Append(ev1, "Submit"))]
            [] logch.st = "closed" ->
                 /\ rq' = [rq EXCEPT ![r].pc = PanicTarget, ![r].ev = ev1,
                                     ![r].npanic = @ + 1]
                 /\ UNCHANGED <<logch, accepted, submitted>>
    /\ UNCHANGED <<cfg, esc, errops, erracc, servePc, done, errch, loggerPc, w, handles, lines,
                   rotations, reports, errloggerPc, errlines, listener, inShutdown,
                   shutdownPc, wg, shutTask, crashed, rot, err>>

\* ServeHTTP's deferred function after a panic: Report.Problem, then
\* serverError, whose own deferred function contains a second panic, be it
\* raised by Error500 or by the response writer under the default 500
Recover(r) ==
    /\ ~crashed
    /\ rq[r].pc = "recover"
    /\ \E panics \in BOOLEAN :
           rq' = [rq EXCEPT
                    ![r].pc = "done",
                    ![r].npanic = IF panics THEN @ + 1 ELSE @,
                    ![r].ev = @ \o Recovered(serverError(cfg.Error500,
                                                         panics))]
    /\ UNCHANGED <<cfg, esc, errops, erracc, servePc, done, logch, errch, loggerPc, w, handles,
                   lines, rotations, reports, errloggerPc, errlines, listener,
                   inShutdown, shutdownPc, wg, shutTask, crashed, rot, err,
                   accepted, submitted>>

\* ---------------------------------------------------------- specification
Startup ==
    \/ ServeInit
    \/ \E i \in Services : ServeSpawn(i)

Consumer ==
    \/ LoggerOpen
    \/ LoggerRecv
    \/ LoggerExit

CloseQueues ==
    \/ ShutdownCloseLog
    \/ ShutdownCloseErr

\* a request whose handler writes nothing and returns
PlainRequest ==
    \/ \E r \in Reqs : ReqArrive(r)
    \/ \E r \in Reqs : HandlerReturn(r)
    \/ \E r \in Reqs : Log(r)
    \/ \E r \in Reqs : Recover(r)

\* the access-log pipeline: submitters, rotation, the consumer, and
\* Shutdown's closing of the queues
InitLog ==
    /\ InitWith({c \in Configs : c.AccessLog /\ ~c.Log /\ ~c.Collect
                              /\ ~c.Error500}, MaxReq)
    /\ esc = NoField

NextLog ==
    \/ Startup
    \/ Consumer
    \/ CloseQueues
    \/ PlainRequest
    \/ RotateLogCall(MaxRot)
    \/ RotateLogSend

SpecLog == InitLog /\ [][NextLog]_vars

\* rotation: one request among MaxRotations rotation signals, the consumer,
\* and Shutdown's closing of the queues
InitRot ==
    /\ InitWith({c \in Configs : c.AccessLog /\ c.ErrorLog /\ ~c.Log
                                  /\ ~c.Collect /\ ~c.Error500}, 1)
    /\ esc = NoField

NextRot ==
    \/ Startup
    \/ Consumer
    \/ CloseQueues
    \/ PlainRequest
    \/ RotateLogCall(MaxRotations)
    \/ RotateLogSend

SpecRot == InitRot /\ [][NextRot]_vars

\* one request in full: every handler call, panics, the three hooks
InitReq == InitWith({c \in Configs : c.ErrorLog}, 1) /\ esc = NoField

NextReq ==
    \/ Startup
    \/ Consumer
    \/ CloseQueues
    \/ PlainRequest
    \/ \E r \in Reqs : HandlerWrite(r)
    \/ \E r \in Reqs : HandlerWriteHeader(r)
    \/ \E r \in Reqs : HandlerPanic(r)

SpecReq == InitReq /\ [][NextReq]_vars

\* the lifecycle: Serve, the listeners, both consumers, Shutdown
InitLife ==
    /\ InitWith({c \in Configs : ~c.Log /\ ~c.Collect /\ ~c.Error500}, 1)
    /\ esc = NoField

NextLife ==
    \/ Startup
    \/ ServeWait
    \/ \E i \in Services : ListenerReturn(i)
    \/ Consumer
    \/ CloseQueues
    \/ ShutdownSpawn
    \/ \E i \in Services : ShutdownTask(i)
    \/ ShutdownWait
    \/ ErrorCall
    \/ ErrorSend
    \/ ErrLoggerRecv
    \/ ErrLoggerExit
    \/ PlainRequest

SpecLife == InitLife /\ [][NextLife]_vars

\* the error log: Server.Error's callers, the consumer, and Shutdown's
\* closing of the queues
InitErr ==
    /\ InitWith({c \in Configs : c.AccessLog /\ c.ErrorLog /\ ~c.Log
                                  /\ ~c.Collect /\ ~c.Error500}, 0)
    /\ esc = NoField

NextErr ==
    \/ Startup
    \/ LoggerOpen
    \/ LoggerExit
    \/ CloseQueues
    \/ ErrorCall
    \/ ErrorSend
    \/ ErrLoggerRecv
    \/ ErrLoggerExit

SpecErr == InitErr /\ [][NextErr]_vars

\* logEscape on its own: one header value, drawn from Fields
InitEsc ==
    /\ InitWith({c \in Configs : c.AccessLog /\ ~c.ErrorLog /\ ~c.Log
                                  /\ ~c.Collect /\ ~c.Error500}, 0)
    /\ esc \in [s : Fields, t : {<<>>}, pc : {"in"}]

NextEsc == EscapeField

SpecEsc == InitEsc /\ [][NextEsc]_vars

\* ---------------------------------------------------------- properties
RECURSIVE IsSubseq(_, _)
\* a is b with some elements left out, the order kept
IsSubseq(a, b) ==
    IF a = <<>> THEN TRUE
    ELSE IF b = <<>> THEN FALSE
    ELSE IF Head(a) = Head(b) THEN IsSubseq(Tail(a), Tail(b))
    ELSE IsSubseq(a, Tail(b))

Count(s, x) == Cardinality({i \in 1..Len(s) : s[i] = x})

\* the records of the written lines, in write order
Written == [i \in 1..Len(lines) |-> lines[i].rec]

\* the records handed to Server.log's select, in call order
SubmittedRecords == [i \in 1..Len(submitted) |-> submitted[i].c]

\* rotation signals the queue accepted before it accepted rec
SignalsBefore(rec) ==
    LET p == CHOOSE i \in 1..Len(accepted) : accepted[i] = rec
    IN Cardinality({j \in 1..(p - 1) : accepted[j].Req = 0})

RECURSIVE HandleAfter(_)
\* the handle opened by the last successful reopen among the first k
\* signals, the handle opened at startup when there is none
HandleAfter(k) ==
    IF k = 0 THEN 1
    ELSE IF rotations[k].ok THEN rotations[k].wx
    ELSE HandleAfter(k - 1)

\* C1: before Shutdown closes the queue, Server.log never blocks: it can
\* always take its step, and that step appends the record at the tail when
\* the queue holds fewer than logQueueSize items, leaves the queue as it is
\* when it holds logQueueSize, and in both cases returns with no panic and
\* no report.
C1_SubmitStep(r) ==
    (rq[r].pc = "log" /\ logch.st = "open" /\ rq'[r].pc # "log") =>
        /\ rq'[r].pc = "done"
        /\ logch'.st = "open"
        /\ logch'.q = IF Len(logch.q) < logQueueSize
                      THEN Append(logch.q, rq[r].c)
                      ELSE logch.q
        /\ reports' = reports
        /\ crashed' = crashed
        /\ Count(rq'[r].ev, "Problem:PANIC!") = 0

C1_SubmitNeverBlocks ==
    /\ [](\A r \in Reqs : (rq[r].pc = "log" /\ ~crashed) => ENABLED Log(r))
    /\ [][\A r \in Reqs : C1_SubmitStep(r)]_vars

\* C1 witness: a record was submitted to a full queue and one to a queue
\* with room, and the queue is still full and open
C1_Witness ==
    /\ logch.st = "open"
    /\ Len(logch.q) = logQueueSize
    /\ \E i, j \in 1..Len(submitted) :
           submitted[i].qlen = logQueueSize /\ submitted[j].qlen < logQueueSize

\* C2: the written lines, followed by the records still queued, are a
\* subsequence of the submitted records (same order, none twice); no line
\* comes from a rotation signal; and when no submission met a full queue
\* they are exactly the submitted records.
C2_WrittenInOrder ==
    /\ \A i \in 1..Len(lines) : lines[i].rec.Req # 0
    /\ IsSubseq(Written \o Records(logch.q), SubmittedRecords)
    /\ \A i, j \in 1..Len(lines) : i # j => lines[i].rec # lines[j].rec
    /\ Written \o Records(logch.q) = Records(accepted)
    /\ (\A i \in 1..Len(submitted) : submitted[i].qlen < logQueueSize)
           => Written \o Records(logch.q) = SubmittedRecords

\* C2 witness: two lines written in submission order, which is not the
\* order in which the requests arrived, and a rotation signal consumed
C2_Witness ==
    /\ Len(lines) = 2
    /\ rotations # <<>>
    /\ lines[1].rec.Req > lines[2].rec.Req
    /\ Written = SubmittedRecords

\* C3: once Shutdown has closed the access queue and the consumer, whose
\* loop had started, can take no further step (it returned, or the process
\* ended), every record the queue accepted has been written.
C3_DrainedAfterClose ==
    (/\ logch.st = "closed"
     /\ handles # <<>>
     /\ rot.pc # "panicked"
     /\ (loggerPc = "exit" \/ crashed))
        => Written = Records(accepted)

\* C4: every line is written through the handle opened by the last
\* successful reopen among the signals accepted before its record (the
\* startup handle when there is none); a successful reopen closes the old
\* handle and brings a new one; the consumer holds that handle, open.
C4_RotationSwitchesHandle ==
    /\ \A i \in 1..Len(lines) :
           lines[i].h = HandleAfter(SignalsBefore(lines[i].rec))
    /\ \A k \in 1..Len(rotations) :
           rotations[k].ok =>
               /\ handles[rotations[k].old] = "closed"
               /\ rotations[k].wx > rotations[k].old
    /\ loggerPc = "loop" =>
           w = HandleAfter(Len(rotations)) /\ handles[w] = "open"

\* C4 witness: a successful rotation with a line through the old handle and
\* a line through the new one
C4_Witness ==
    \E k \in 1..Len(rotations) :
        /\ rotations[k].ok
        /\ \E i, j \in 1..Len(lines) :
               lines[i].h = rotations[k].old /\ lines[j].h = rotations[k].wx

\* C5: a request whose handler panicked never leaves ServeHTTP by the
\* panic: it is in the deferred function, which can always finish, or has
\* returned; and when it has returned there is exactly one PANIC! report,
\* made first, followed by the 500: Error500 when configured, else
\* WriteHeader(500) and the default body.
C5_PanicContained ==
    \A r \in Reqs :
        rq[r].ret = "panic" =>
            /\ rq[r].pc \in {"recover", "done"}
            /\ (rq[r].pc = "recover" /\ ~crashed) => ENABLED Recover(r)
            /\ rq[r].pc = "done" =>
                   /\ Count(rq[r].ev, "Problem:PANIC!") = 1
                   /\ Len(rq[r].ev) >= 2
                   /\ rq[r].ev[1] = "Problem:PANIC!"
                   /\ IF cfg.Error500
                      THEN rq[r].ev[2] = "Error500"
                      ELSE /\ Len(rq[r].ev) >= 3
                           /\ rq[r].ev[2] = "WriteHeader:500"
                           /\ rq[r].ev[3] = "Body"

\* C5 witness: a handler panicked and the default 500 was written
C5_Witness ==
    \E r \in Reqs :
        /\ rq[r].pc = "done"
        /\ rq[r].ret = "panic"
        /\ Count(rq[r].ev, "Body") = 1

\* C6: every request ServeHTTP has finished passed exactly one record to
\* Server.log, and to the collector when one is configured.
C6_OneRecordPerRequest ==
    \A r \in Reqs :
        rq[r].pc = "done" =>
            /\ Count(rq[r].ev, "log") = 1
            /\ cfg.Collect => Count(rq[r].ev, "Collect") = 1

\* C7: when Shutdown has returned, no listener started by Serve is running.
C7_ListenersStoppedAfterShutdown ==
    shutdownPc = "returned" => \A i \in Services : listener[i] # "running"

\* C8: when every listener has stopped, Shutdown has returned and both
\* consumers have finished or were never started (no file failed to open),
\* the join counter is back at zero, so that Serve's Wait returns.
C8_ServeReturns ==
    (/\ \A i \in Services : listener[i] = "stopped"
     /\ reports = <<>>
     /\ shutdownPc = "returned"
     /\ loggerPc \in {"none", "exit"}
     /\ errloggerPc \in {"none", "exit"})
        => done = 0

\* C9: the record of a request whose handler returned normally has status
\* 200 when the handler never called WriteHeader, else the last status it
\* passed to WriteHeader.
C9_RecordedStatus ==
    \A r \in Reqs :
        (rq[r].ret = "normal" /\ rq[r].pc # "handler") =>
            rq[r].c.Status = IF rq[r].last = 0 THEN 200 ELSE rq[r].last

\* C9 witness: a finished request whose handler wrote bytes and set 404
C9_Witness ==
    \E r \in Reqs :
        /\ rq[r].pc = "done"
        /\ rq[r].ret = "normal"
        /\ rq[r].last = 404
        /\ rq[r].sum > 0

\* C10: the record of a request whose handler returned normally has as Size
\* the sum of the lengths of the chunks passed to Write.
C10_RecordedSize ==
    \A r \in Reqs :
        (rq[r].ret = "normal" /\ rq[r].pc # "handler") =>
            rq[r].c.Size = rq[r].sum

\* C10 witness: a finished request whose handler wrote two chunks of
\* different lengths around a WriteHeader call
C10_Witness ==
    \E r \in Reqs :
        /\ rq[r].pc = "done"
        /\ rq[r].ret = "normal"
        /\ rq[r].sum = 3
        /\ rq[r].calls = 3
        /\ rq[r].last # 0

\* the bytes the claim calls escapable
C11_Escapable(c) == c = 32 \/ c = 34 \/ c = 37 \/ c <= 32 \/ c >= 127

\* an uppercase hexadecimal digit, as a character code
C11_Hex(d) == IF d < 10 THEN 48 + d ELSE 55 + d

RECURSIVE C11_Expected(_)
\* byte by byte: the byte, or '%' and its two uppercase hex digits
C11_Expected(s) ==
    IF s = <<>> THEN <<>>
    ELSE LET c == Head(s)
         IN (IF C11_Escapable(c)
             THEN <<37, C11_Hex(c \div 16), C11_Hex(c % 16)>>
             ELSE <<c>>) \o C11_Expected(Tail(s))

\* C11: logEscape(s) is, byte by byte, the byte itself when it is not
\* escapable and '%' with its two uppercase hex digits when it is; so the
\* only raw escapable byte of the result is a '%' that starts a %XX
\* triplet, and a string with no escapable byte comes back unchanged.
C11_EscapeByBytes ==
    esc.pc = "out" =>
        /\ esc.t = C11_Expected(esc.s)
        /\ \A i \in 1..Len(esc.t) :
               C11_Escapable(esc.t[i]) =>
                   /\ esc.t[i] = 37
                   /\ i + 2 <= Len(esc.t)
                   /\ \A k \in {i + 1, i + 2} :
                          esc.t[k] \in (48..57) \cup (65..70)
        /\ (\A i \in 1..Len(esc.s) : ~C11_Escapable(esc.s[i]))
               => esc.t = esc.s

\* C11 witness: "A", 0xFF, space came back as "A%FF%20"
C11_Witness ==
    /\ esc.pc = "out"
    /\ esc.s = <<65, 255, 32>>
    /\ esc.t = <<65, 37, 70, 70, 37, 50, 48>>

\* the startup open of the access log failed
C12_OpenFailed == \E i \in 1..Len(reports) : reports[i] = "Fatal:open"

\* what holds after a failed startup open whatever Report.Fatal does: the
\* one report is the Fatal one, the loop never starts, no handle, no line
C12_NeverStarts ==
    /\ Count(reports, "Fatal:open") = 1
    /\ \A i \in 1..Len(reports) : reports[i] # "Problem:rotate"
    /\ loggerPc # "loop"
    /\ handles = <<>>
    /\ rotations = <<>>
    /\ lines = <<>>

\* the join counter without the consumer's slot: the listeners started and
\* the error-log consumer, whose slot is never given back
C12_SlotsOfOthers ==
    Cardinality({i \in Services : listener[i] = "running"})
        + (IF cfg.ErrorLog THEN 1 ELSE 0)

\* C12 as stated: after a failed startup open the report is Fatal, the
\* consumer never starts and writes nothing, its slot in the join counter
\* is released, and requests go on being served with a submit that does
\* not block.
C12_OpenFailureContained ==
    C12_OpenFailed =>
        /\ C12_NeverStarts
        /\ loggerPc = "exit"
        /\ done = C12_SlotsOfOthers
        /\ ~crashed
        /\ \A r \in Reqs : rq[r].pc = "log" => ENABLED Log(r)

\* C12 amended: the report is Fatal, the consumer never starts and writes
\* nothing; when Report.Fatal returns, the consumer returns, its slot is
\* released and every submit still goes through without blocking, what
\* the queue accepts staying in it unread; when Report.Fatal ends the
\* process (the default reporter), nothing more happens.
C12_OpenFailureFatal ==
    C12_OpenFailed =>
        /\ C12_NeverStarts
        /\ logch.q = accepted
        /\ \/ loggerPc = "open" /\ crashed
           \/ /\ loggerPc = "exit"
              /\ done = C12_SlotsOfOthers
              /\ \A r \in Reqs :
                     (rq[r].pc = "log" /\ ~crashed) => ENABLED Log(r)

\* C12 witness: Report.Fatal returned, and since then the unread queue
\* took what fitted and a request met it full and returned
C12_Witness ==
    /\ C12_OpenFailed
    /\ loggerPc = "exit"
    /\ ~crashed
    /\ Len(logch.q) = logQueueSize
    /\ \E i \in 1..Len(submitted) : submitted[i].qlen = logQueueSize
    /\ \A r \in Reqs : rq[r].pc = "done"

\* the messages of errlogger's file operations of the kinds in ops
C13_Msgs(ops) ==
    LET sel == SelectSeq(errops, LAMBDA o : o.op \in ops)
    IN [i \in 1..Len(sel) |-> sel[i].msg]

\* C13: errlogger takes the messages in the order the queue accepted them,
\* each once; a message whose open succeeded gets open, write, close and
\* nothing else, one whose open failed gets one Problem report and no
\* write; the lines written are the messages whose open succeeded, in that
\* order; no file is open once a message is dealt with; and a failed open
\* does not end the consumer, which stops only on a closed, empty queue.
C13_ErrorLogInOrder ==
    /\ C13_Msgs({"open", "openfail"}) \o errch.q = erracc
    /\ errlines = C13_Msgs({"open"})
    /\ errlines = C13_Msgs({"write"})
    /\ \A i \in 1..Len(errops) :
           /\ errops[i].op = "open" =>
                  /\ i + 2 <= Len(errops)
                  /\ errops[i + 1] = [op |-> "write", msg |-> errops[i].msg]
                  /\ errops[i + 2] = [op |-> "close", msg |-> errops[i].msg]
           /\ errops[i].op = "write" => i > 1 /\ errops[i - 1].op = "open"
           /\ errops[i].op = "close" => i > 1 /\ errops[i - 1].op = "write"
    /\ Len(C13_Msgs({"open"})) = Len(C13_Msgs({"close"}))
    /\ Count(reports, "Problem:erropen") = Len(C13_Msgs({"openfail"}))
    /\ errloggerPc = "exit" => errch.st = "closed" /\ errch.q = <<>>

\* C13 witness: two messages; the open failed for the first, and the second
\* was written
C13_Witness ==
    /\ erracc = <<1, 2>>
    /\ C13_Msgs({"openfail"}) = <<1>>
    /\ errlines = <<2>>
    /\ errch.q = <<>>

\* the signals whose reopen failed
C14_Failed == {k \in 1..Len(rotations) : ~rotations[k].ok}

\* C14: a rotation signal whose reopen fails brings one Problem report and
\* no new handle; the consumer goes on (it ends only on a closed, empty
\* queue) with the old handle open and in use: the records accepted after
\* that signal and before the next are written through it; and a
\* following signal whose reopen succeeds closes that handle and switches
\* to the new one.
C14_FailedRotationKeepsHandle ==
    /\ Count(reports, "Problem:rotate") = Cardinality(C14_Failed)
    /\ (loggerPc = "exit" /\ C14_Failed # {}) =>
           logch.st = "closed" /\ logch.q = <<>>
    /\ \A k \in C14_Failed :
           LET old == rotations[k].old
           IN /\ rotations[k].wx = 0
              /\ Len(handles) >= old
              /\ \A i \in 1..Len(lines) :
                     SignalsBefore(lines[i].rec) = k => lines[i].h = old
              /\ IF k = Len(rotations)
                 THEN /\ w = old
                      /\ loggerPc = "loop" => handles[old] = "open"
                 ELSE /\ rotations[k + 1].old = old
                      /\ rotations[k + 1].ok =>
                             /\ handles[old] = "closed"
                             /\ rotations[k + 1].wx # old
                             /\ (k + 1 = Len(rotations)) =>
                                    w = rotations[k + 1].wx

\* C14 witness: the first reopen failed, a record accepted after it was
\* written through the startup handle, and a second reopen succeeded and
\* switched
C14_Witness ==
    /\ Len(rotations) = 2
    /\ ~rotations[1].ok
    /\ rotations[2].ok
    /\ Len(accepted) = 3
    /\ accepted[2].Req # 0
    /\ lines = <<[rec |-> accepted[2], h |-> 1]>>
    /\ w = 2
    /\ handles = <<"closed", "open">>

\* C15: when the handler panicked and the 500 substitute (Error500, or the
\* default writer) panicked too, ServeHTTP still returns, having made the
\* PANIC! report, then the substitute's calls, then one second, different
\* report, and last WriteHeader(500) on the response writer it was given.
C15_SecondPanicContained ==
    \A r \in Reqs :
        (rq[r].ret = "panic" /\ rq[r].npanic = 2) =>
            LET ev == rq[r].ev
                n == Len(ev)
            IN /\ rq[r].pc = "done"
               /\ n >= 4
               /\ ev[1] = "Problem:PANIC!"
               /\ ev[2] = IF cfg.Error500 THEN "Error500"
                          ELSE "WriteHeader:500"
               /\ ev[n - 1] = "Problem:PANIC in PANIC handler"
               /\ ev[n] = "WriteHeader:500"
               /\ Count(ev, "Problem:PANIC!") = 1
               /\ Count(ev, "Problem:PANIC in PANIC handler") = 1
               /\ Count(ev, "log") = 0

\* C15 witness: the handler and then Error500 panicked, and ServeHTTP
\* returned after both reports and the bare WriteHeader(500)
C15_Witness ==
    \E r \in Reqs :
        /\ rq[r].pc = "done"
        /\ rq[r].npanic = 2
        /\ rq[r].ev = <<"Problem:PANIC!", "Error500",
                        "Problem:PANIC in PANIC handler", "WriteHeader:500">>

\* C16: Shutdown, called once after Serve has started, raises no fault
\* whichever of the two writers are configured: it never panics.
C16_ShutdownNoFault == shutdownPc # "panicked"

\* C17: a submission made after Shutdown closed the queues raises no
\* fault: a request whose handler returned normally is never in the panic
\* path, gets no PANIC! report and no 500 substitute, and Server.Error
\* never panics.
C17_LateSubmissionRejected ==
    /\ \A r \in Reqs :
           rq[r].ret = "normal" =>
               /\ rq[r].pc # "recover"
               /\ rq[r].npanic = 0
               /\ Count(rq[r].ev, "Problem:PANIC!") = 0
               /\ Count(rq[r].ev, "WriteHeader:500") = 0
               /\ Count(rq[r].ev, "Error500") = 0
    /\ err.pc # "panicked"

\* C18: RotateLog does nothing without an access log, enqueues no more than
\* one signal per call, and before Shutdown a call that has reached its
\* send is never left waiting for good: either the send can go through, or
\* the consumer is still there to make room for it.
C18_RotateLogReturns ==
    /\ ~cfg.AccessLog => rot.pc = "idle" /\ Count(accepted, RotateSignal) = 0
    /\ Count(accepted, RotateSignal) <= rot.n
    /\ (rot.pc = "send" /\ shutdownPc = "idle" /\ ~crashed) =>
           \/ ENABLED RotateLogSend
           \/ loggerPc \in {"open", "loop"}

\* the handles of the access-log consumer that are open
C19_Open == {h \in 1..Len(handles) : handles[h] = "open"}

\* C19: the consumer has no handle before its loop, exactly one open
\* handle, the one it writes through, while the loop runs, and none once it
\* has returned; it opened one handle at startup and one per successful
\* reopen; no handle is closed twice; and every line is written through a
\* handle that is open at that moment.
C19_OneOpenHandle ==
    /\ [](/\ loggerPc \in {"none", "open"} => handles = <<>>
          /\ loggerPc = "loop" => C19_Open = {w}
          /\ loggerPc = "exit" => C19_Open = {}
          /\ \A h \in 1..Len(handles) : handles[h] # "closed twice"
          /\ handles # <<>> =>
                 Len(handles) = 1 + Cardinality({k \in 1..Len(rotations) :
                                                    rotations[k].ok}))
    /\ [][lines' # lines =>
              /\ Len(lines') = Len(lines) + 1
              /\ handles[lines'[Len(lines')].h] = "open"
              /\ handles'[lines'[Len(lines')].h] = "open"]_vars

\* C19 witness: the consumer returned after a failed and a successful
\* reopen and a written line, with both handles closed
C19_Witness ==
    /\ loggerPc = "exit"
    /\ \E j, k \in 1..Len(rotations) : ~rotations[j].ok /\ rotations[k].ok
    /\ lines # <<>>
    /\ handles = <<"closed", "closed">>

\* the calls among ev made with the record: the verbose sink, the collector
C20_Deliveries(ev) == SelectSeq(ev, LAMBDA e : e \in {"Verbose", "Collect"})

\* C20: when ServeHTTP has returned for a request whose handler returned
\* normally (so that a record was built), the record went once to the
\* verbose sink if Log is configured and then once to the collector if
\* Collect is configured, and nowhere else, whatever the queue did with it.
C20_DeliveredOnce ==
    \A r \in Reqs :
        (rq[r].ret = "normal" /\ rq[r].pc = "done") =>
            C20_Deliveries(rq[r].ev) =
                (IF cfg.Log THEN <<"Verbose">> ELSE <<>>)
                    \o (IF cfg.Collect THEN <<"Collect">> ELSE <<>>)

====
